---- MODULE Spec2Model ----
(***************************************************************************)
(* AI Product Photo Editor: the request orchestrator                       *)
(* (services/geminiService.ts: generatePhotos, refineImage) and the        *)
(* result-history state of the App component (handleGenerateClick,         *)
(* handleRefinement, handleUndo, handleRedo, handleRefinementPromptChange, *)
(* the history list and its onClick).                                      *)
(*                                                                         *)
(* JavaScript runs every handler to its next await without interruption,   *)
(* so one action is one such run: a click handler up to its first await,   *)
(* or the continuation that a file read or an API response resumes         *)
(* (including the promise continuations it triggers synchronously).        *)
(* Indices (currentIndex, resultIndex) are 0-based as in the source; TLA+  *)
(* sequences are 1-based, so element k of the source is [k + 1] here.      *)
(***************************************************************************)
EXTENDS Integers, Sequences, FiniteSets, TLC

\* ------------------------------------------------------------------ bounds
\* uploads and removals, theme and text input events and generate clicks in
\* one session (refine, undo, redo and history clicks are not counted)
MaxUserEvents == 4
\* text-only answers the API gives to the calls of one generation started
\* from the UI
MaxTextOnly == 1

\* ------------------------------------------------------- program constants
numberOfImages == 4

NULL == "null"

\* ------------------------------------------------------------- input sets
\* the files, themes (2 of the 9 THEMES buttons) and texts a user enters
ProductFiles == {"product.png"}
ModelFiles == {"model.jpg"}
ReferenceFiles == {"style.webp"}
THEMES == {"None", "Studio"}
CustomThemeTexts == {"", "neon"}
CommandTexts == {"", "smile"}
RefinementTexts == {"", " ", "warmer"}
Whitespace == {" "}

\* File.type of an uploaded file
FileType(file) ==
    CASE file = "product.png" -> "image/png"
      [] file = "model.jpg" -> "image/jpeg"
      [] file = "style.webp" -> "image/webp"

\* reader.readAsDataURL(file): "data:<type>;base64,<content>", kept as the
\* pieces the code later cuts it into
ReadAsDataURL(file) == <<"data:", FileType(file), ";base64,", <<"bytes", file>>>>

\* `data:${mimeType};base64,${data}`
DataUrl(mimeType, data) == <<"data:", mimeType, ";base64,", data>>

\* dataUrl.split(',')[1]
AfterComma(dataUrl) == dataUrl[4]

\* s.substring(s.indexOf(":") + 1, s.indexOf(";"))
BetweenColonAndSemicolon(dataUrl) == dataUrl[2]

fileToGenerativePart(file) ==
    [inlineData |-> [data |-> AfterComma(ReadAsDataURL(file)), mimeType |-> FileType(file)]]

\* String.prototype.trim on the modelled texts
Trim(s) == IF s \in Whitespace THEN "" ELSE s

\* JavaScript truthiness of a string
Truthy(s) == s # ""

\* ------------------------------------------------ the external API's answers
\* A response is the parts of its first candidate: text only, or text and an
\* image.  The code never looks into an image payload, so each image is named
\* after the call it answers: <<"generated", Date.now() of the batch, position>>
\* for a generation call; for a refinement call the source image's name
\* followed by "refined" and the session's event count (so that two
\* refinements of one image get different names).
TextOnlyResponse == <<[text |-> "no image"]>>
ImageResponse(d) == <<[text |-> "here"], [inlineData |-> [mimeType |-> "image/png", data |-> d]]>>
ResponsesTo(call) == {TextOnlyResponse, ImageResponse(call)}
RefinedName(source, count) == source \o <<"refined", count>>

\* what a rejected call throws
Rejections == {[isError |-> TRUE, message |-> "Network error"], [isError |-> FALSE, message |-> "thrown text"]}

ApiKeyError == [isError |-> TRUE, message |-> "API_KEY environment variable is not set."]
RefineNoImageError == [isError |-> TRUE, message |-> "Failed to refine image."]

\* parts.find(p => p.inlineData): the first part carrying inlineData, or NULL
RECURSIVE FindInlineData(_)
FindInlineData(parts) ==
    IF parts = <<>> THEN NULL
    ELSE IF "inlineData" \in DOMAIN Head(parts) THEN Head(parts)
    ELSE FindInlineData(Tail(parts))

HasImage(response) == \E k \in 1..Len(response) : "inlineData" \in DOMAIN response[k]

\* the data URL of a response's image
ImageUrlOf(response) ==
    LET imagePart == FindInlineData(response)
    IN DataUrl(imagePart.inlineData.mimeType, imagePart.inlineData.data)

VARIABLES
    \* process.env.API_KEY is set
    apiKeySet,
    \* App state (useState)
    productPhoto, modelPhoto, referencePhoto,
    activeTheme, customTheme, additionalCommands,
    isLoading, results, history, error,
    \* Date.now() as read by the next completed generation
    now,
    \* the generatePhotos invocation: position, arguments, parts read so far,
    \* generateContent requests issued, responses received, settled value
    gpPc, gpArgs, gpParts, gpCalls, gpResp, gpOut,
    \* the handleRefinement invocation while it is suspended: position,
    \* captured resultId and resultIndex, the generateContent request issued
    rfPc, rfId, rfIndex, rfCall,
    \* what the last completed step did (observation only)
    last,
    \* counted user events so far (session budget)
    nEvents,
    \* text-only answers the API may still give to the running generation
    quota

inputVars == <<productPhoto, modelPhoto, referencePhoto, activeTheme, customTheme, additionalCommands>>
appVars == <<isLoading, results, history, error, now>>
gpVars == <<gpPc, gpArgs, gpParts, gpCalls, gpResp, gpOut>>
rfVars == <<rfPc, rfId, rfIndex, rfCall>>
budgetVars == <<nEvents, quota>>
vars == <<apiKeySet, inputVars, appVars, gpVars, rfVars, last, budgetVars>>


\* ------------------------------------------------------------------- Init
\* App(): the useState initial values (part_000:114-124); no call in flight.
Init ==
    /\ apiKeySet \in BOOLEAN
    /\ productPhoto = NULL /\ modelPhoto = NULL /\ referencePhoto = NULL
    /\ activeTheme = "Studio" /\ customTheme = "" /\ additionalCommands = ""
    /\ isLoading = FALSE /\ results = <<>> /\ history = <<>> /\ error = NULL
    /\ now = 0
    /\ gpPc = "idle" /\ gpArgs = NULL /\ gpParts = <<>> /\ gpCalls = <<>>
    /\ gpResp = <<>> /\ gpOut = <<>>
    /\ rfPc = "idle" /\ rfId = NULL /\ rfIndex = -1 /\ rfCall = <<>>
    /\ last = [op |-> "init", arg |-> <<>>, pre |-> <<>>]
    /\ nEvents = 0 /\ quota = 0

\* ------------------------------------------- geminiService.ts: generatePhotos
\* const finalTheme = theme === 'None' ? customTheme : theme;
finalTheme(args) == IF args.theme = "None" THEN args.customTheme ELSE args.theme

ReferenceBasePrompt == "Generate 1 product photo that matches the style of the reference photo. The logo, text, shape, and product color must not be altered."
ModelBasePrompt == "Generate a professional photo of the provided model holding or wearing the product. Add supporting props to make the photo more appealing. It is absolutely crucial that the model's face remains consistent and unchanged from the source photo. Do not alter the facial features. Create a unique variation with a different body pose, facial expression, lighting, composition, or camera angle."
ProductBasePrompt == "Generate a professional variation of the product in the image with different lighting, composition, and camera angles. Add supporting props to make the product photo more appealing."

\* mutant: the clause is built from the selected theme, custom theme ignored
ThemeClause_IgnoresCustom(args) ==
    IF Truthy(args.theme) THEN <<" The theme should be: ", args.theme, ".">> ELSE <<>>

\* if (finalTheme) prompt += ` The theme should be: ${finalTheme}.`;
ThemeClause(args) ==
    IF Truthy(finalTheme(args)) THEN <<" The theme should be: ", finalTheme(args), ".">> ELSE <<>>

\* if (additionalCommands) prompt += ` Additional instructions: ${additionalCommands}.`;
CommandsClause(args) ==
    IF Truthy(args.additionalCommands)
    THEN <<" Additional instructions: ", args.additionalCommands, ".">> ELSE <<>>

\* a prompt string is the sequence of the pieces concatenated into it
ReferencePrompt(args) == <<ReferenceBasePrompt>> \o ThemeClause(args) \o CommandsClause(args)

basePrompt(args) == IF args.modelPhoto # NULL THEN ModelBasePrompt ELSE ProductBasePrompt

fullPrompt(args) == <<basePrompt(args)>> \o ThemeClause(args) \o CommandsClause(args)

\* aiInstance.models.generateContent({model, contents: {parts}, config})
GenerateContentRequest(parts) ==
    [model |-> "gemini-2.5-flash-image", parts |-> parts, responseModalities |-> <<"IMAGE", "TEXT">>]

\* mutant: every call gets its own numbered prompt
IssuedGenerationCalls_NumberedPrompts(parts, args) ==
    [i \in 1..numberOfImages |->
        GenerateContentRequest(parts \o <<[text |-> fullPrompt(args) \o <<" Variation ", i>>]>>)]

\* for (let i = 0; i < numberOfImages; i++) generationPromises.push(generateContent(
\*     { contents: { parts: [...parts, { text: fullPrompt }] } }))
IssuedGenerationCalls(parts, args) ==
    [i \in 1..numberOfImages |-> GenerateContentRequest(parts \o <<[text |-> fullPrompt(args)]>>)]

\* the single request of the reference branch
IssuedReferenceCall(parts, args) ==
    <<GenerateContentRequest(parts \o <<[text |-> ReferencePrompt(args)]>>)>>

\* responses.map(response => image url or null).filter(url => url !== null),
\* over the responses in the order of their promises
RECURSIVE imageUrls(_, _)
imageUrls(resp, i) ==
    IF i > numberOfImages THEN <<>>
    ELSE (IF HasImage(resp[i]) THEN <<ImageUrlOf(resp[i])>> ELSE <<>>) \o imageUrls(resp, i + 1)

\* generatePhotos up to its first await: getAi() throws without an API key,
\* otherwise the product file read is started.
generatePhotos(args) ==
    /\ gpArgs' = args
    /\ gpParts' = <<>> /\ gpCalls' = <<>> /\ gpResp' = <<>>
    /\ IF apiKeySet
       THEN gpPc' = "readProduct" /\ gpOut' = <<>>
       ELSE gpPc' = "rejected" /\ gpOut' = ApiKeyError

\* mutant: the model photo is looked at before the reference photo
GP_ProductRead_ModelFirst ==
    /\ gpPc = "readProduct"
    /\ LET parts == <<fileToGenerativePart(gpArgs.productPhoto)>>
       IN /\ gpParts' = parts
          /\ IF gpArgs.modelPhoto # NULL
             THEN gpPc' = "readModel" /\ UNCHANGED gpCalls
             ELSE IF gpArgs.referencePhoto # NULL
             THEN gpPc' = "readReference" /\ UNCHANGED gpCalls
             ELSE gpPc' = "awaitAll" /\ gpCalls' = IssuedGenerationCalls(parts, gpArgs)
    /\ UNCHANGED <<gpArgs, gpResp, gpOut, quota>>

\* productPart is read; without a reference or model photo the 4 calls are
\* issued in the same run.
GP_ProductRead ==
    /\ gpPc = "readProduct"
    /\ LET parts == <<fileToGenerativePart(gpArgs.productPhoto)>>
       IN /\ gpParts' = parts
          /\ IF gpArgs.referencePhoto # NULL
             THEN gpPc' = "readReference" /\ UNCHANGED gpCalls
             ELSE IF gpArgs.modelPhoto # NULL
             THEN gpPc' = "readModel" /\ UNCHANGED gpCalls
             ELSE gpPc' = "awaitAll" /\ gpCalls' = IssuedGenerationCalls(parts, gpArgs)
    /\ UNCHANGED <<gpArgs, gpResp, gpOut, quota>>

\* referencePart is read and the one reference-mode call is issued
GP_ReferenceRead ==
    /\ gpPc = "readReference"
    /\ LET parts == gpParts \o <<fileToGenerativePart(gpArgs.referencePhoto)>>
       IN /\ gpParts' = parts
          /\ gpCalls' = IssuedReferenceCall(parts, gpArgs)
    /\ gpPc' = "awaitOne"
    /\ UNCHANGED <<gpArgs, gpResp, gpOut, quota>>

\* modelPart is read and the 4 calls are issued
GP_ModelRead ==
    /\ gpPc = "readModel"
    /\ LET parts == gpParts \o <<fileToGenerativePart(gpArgs.modelPhoto)>>
       IN /\ gpParts' = parts
          /\ gpCalls' = IssuedGenerationCalls(parts, gpArgs)
    /\ gpPc' = "awaitAll"
    /\ UNCHANGED <<gpArgs, gpResp, gpOut, quota>>

\* the reference-mode call answers: [url] or []
GP_ReferenceResponse ==
    /\ gpPc = "awaitOne"
    /\ \E r \in ResponsesTo(<<"generated", now, 1>>) :
        /\ HasImage(r) \/ quota > 0
        /\ quota' = IF HasImage(r) THEN quota ELSE quota - 1
        /\ gpResp' = (1 :> r)
        /\ gpOut' = IF HasImage(r) THEN <<ImageUrlOf(r)>> ELSE <<>>
    /\ gpPc' = "fulfilled"
    /\ UNCHANGED <<gpArgs, gpParts, gpCalls>>

\* the reference-mode call rejects
GP_ReferenceReject ==
    /\ gpPc = "awaitOne"
    /\ \E e \in Rejections : gpOut' = e
    /\ gpPc' = "rejected"
    /\ UNCHANGED <<gpArgs, gpParts, gpCalls, gpResp, quota>>

\* mutant: the responses are collected in the order they arrive
GP_CallResponse_ArrivalOrder ==
    /\ gpPc = "awaitAll"
    /\ \E i \in 1..numberOfImages : \E r \in ResponsesTo(<<"generated", now, i>>) :
        LET slot == Cardinality(DOMAIN gpResp) + 1
            resp == [j \in DOMAIN gpResp \cup {slot} |-> IF j = slot THEN r ELSE gpResp[j]]
        IN /\ \A j \in DOMAIN gpResp : HasImage(r) => gpResp[j] # r
           /\ HasImage(r) \/ quota > 0
           /\ quota' = IF HasImage(r) THEN quota ELSE quota - 1
           /\ gpResp' = resp
           /\ IF DOMAIN resp = 1..numberOfImages
              THEN gpPc' = "fulfilled" /\ gpOut' = imageUrls(resp, 1)
              ELSE UNCHANGED <<gpPc, gpOut>>
    /\ UNCHANGED <<gpArgs, gpParts, gpCalls>>

\* call i of the 4 answers; Promise.all fulfils once all 4 have, with the
\* responses in the order of the promises
GP_CallResponse ==
    /\ gpPc = "awaitAll"
    /\ \E i \in (1..numberOfImages) \ DOMAIN gpResp : \E r \in ResponsesTo(<<"generated", now, i>>) :
        LET resp == [j \in DOMAIN gpResp \cup {i} |-> IF j = i THEN r ELSE gpResp[j]]
        IN /\ HasImage(r) \/ quota > 0
           /\ quota' = IF HasImage(r) THEN quota ELSE quota - 1
           /\ gpResp' = resp
           /\ IF DOMAIN resp = 1..numberOfImages
              THEN gpPc' = "fulfilled" /\ gpOut' = imageUrls(resp, 1)
              ELSE UNCHANGED <<gpPc, gpOut>>
    /\ UNCHANGED <<gpArgs, gpParts, gpCalls>>

\* call i of the 4 rejects; Promise.all rejects at once with its reason (the
\* other calls stay outstanding, their answers are never read)
GP_CallReject ==
    /\ gpPc = "awaitAll"
    /\ \E i \in (1..numberOfImages) \ DOMAIN gpResp : \E e \in Rejections : gpOut' = e
    /\ gpPc' = "rejected"
    /\ UNCHANGED <<gpArgs, gpParts, gpCalls, gpResp, quota>>

\* a file read ends in error: onloadend runs with reader.result null, the
\* callback throws on .split before resolve is called, and the promise
\* generatePhotos awaits is never settled
GP_ReadFails ==
    /\ gpPc \in {"readProduct", "readReference", "readModel"}
    /\ gpPc' = "hung"
    /\ UNCHANGED <<gpArgs, gpParts, gpCalls, gpResp, gpOut, quota>>

\* one resumption of the suspended generatePhotos
GPStep ==
    \/ GP_ReadFails
    \/ GP_ProductRead
    \/ GP_ReferenceRead
    \/ GP_ModelRead
    \/ GP_ReferenceResponse
    \/ GP_ReferenceReject
    \/ GP_CallResponse
    \/ GP_CallReject

gpSettled == gpPc \in {"idle", "fulfilled", "rejected"}

\* --------------------------------------------- the orchestrator on its own
\* generatePhotos called with any arguments (its callers aside)
GenerationArgs ==
    [productPhoto : ProductFiles,
     modelPhoto : ModelFiles \cup {NULL},
     referencePhoto : ReferenceFiles \cup {NULL},
     theme : THEMES,
     customTheme : CustomThemeTexts,
     additionalCommands : CommandTexts]

ServiceInvoke ==
    /\ gpSettled
    /\ \E args \in GenerationArgs : generatePhotos(args)
    /\ quota' = numberOfImages
    /\ last' = [op |-> "invoke", arg |-> <<>>, pre |-> <<>>]
    /\ UNCHANGED <<apiKeySet, inputVars, appVars, rfVars, nEvents>>

ServiceStep ==
    /\ GPStep
    /\ last' = [op |-> "service", arg |-> DOMAIN gpResp' \ DOMAIN gpResp, pre |-> <<>>]
    /\ UNCHANGED <<apiKeySet, inputVars, appVars, rfVars, nEvents>>

NextService == ServiceInvoke \/ ServiceStep

SpecService == Init /\ [][NextService]_vars


\* ------------------------------------------------ geminiService.ts: refineImage
\* the request refineImage(base64ImageData, command) issues
RefineRequest(base64ImageData, command) ==
    GenerateContentRequest(
        <<[inlineData |-> [data |-> AfterComma(base64ImageData),
                           mimeType |-> BetweenColonAndSemicolon(base64ImageData)]],
          [text |-> command]>>)

\* ------------------------------------------------------------- App: helpers
Max(a, b) == IF a >= b THEN a ELSE b
Min(a, b) == IF a <= b THEN a ELSE b

\* results.findIndex(r => r.id === resultId): 0-based, -1 when absent
RECURSIVE findIndexFrom(_, _, _)
findIndexFrom(rs, resultId, k) ==
    IF k > Len(rs) THEN -1
    ELSE IF rs[k].id = resultId THEN k - 1
    ELSE findIndexFrom(rs, resultId, k + 1)

findIndex(rs, resultId) == findIndexFrom(rs, resultId, 1)

\* e instanceof Error ? e.message : 'An unknown error occurred.'
GenerateErrorMessage(e) == IF e.isError THEN e.message ELSE "An unknown error occurred."

\* mutant: currentIndex takes the map index
newResults_IndexFromMap(generatedImages, time) ==
    [k \in 1..Len(generatedImages) |->
        [id |-> <<"result", time, k - 1>>,
         imageHistory |-> <<generatedImages[k]>>,
         currentIndex |-> k - 1,
         refinementPrompt |-> ""]]

\* generatedImages.map((url, index) => ({ id: `result-${Date.now()}-${index}`,
\*   imageHistory: [url], currentIndex: 0, refinementPrompt: '' }))
newResults(generatedImages, time) ==
    [k \in 1..Len(generatedImages) |->
        [id |-> <<"result", time, k - 1>>,
         imageHistory |-> <<generatedImages[k]>>,
         currentIndex |-> 0,
         refinementPrompt |-> ""]]

\* mutant: a batch is recorded whatever the number of entries
recordBatch_AlwaysRecords(prev, entries, time) ==
    <<[id |-> <<"history", time>>, results |-> entries]>> \o prev

\* mutant: the new batch is put at the end of the list
recordBatch_Appends(prev, entries, time) ==
    IF Len(entries) > 0
    THEN prev \o <<[id |-> <<"history", time>>, results |-> entries]>>
    ELSE prev

\* setHistory(prev => [{ id: `history-${Date.now()}`, results: newResults }, ...prev])
\* under if (newResults.length > 0)
recordBatch(prev, entries, time) ==
    IF Len(entries) > 0
    THEN <<[id |-> <<"history", time>>, results |-> entries]>> \o prev
    ELSE prev

\* mutant: the redo branch is kept (no slice)
refinedEntry_NoTruncate(res, newImageUrl) ==
    LET newHistory == Append(res.imageHistory, newImageUrl)
    IN [res EXCEPT !.imageHistory = newHistory,
                   !.currentIndex = Len(newHistory) - 1,
                   !.refinementPrompt = ""]

\* mutant: currentIndex = newHistory.length
refinedEntry_IndexPastEnd(res, newImageUrl) ==
    LET newHistory == Append(SubSeq(res.imageHistory, 1, res.currentIndex + 1), newImageUrl)
    IN [res EXCEPT !.imageHistory = newHistory,
                   !.currentIndex = Len(newHistory),
                   !.refinementPrompt = ""]

\* the entry a successful refinement writes: slice(0, currentIndex + 1),
\* push(newImageUrl), currentIndex = newHistory.length - 1, refinementPrompt ''
refinedEntry(res, newImageUrl) ==
    LET newHistory == Append(SubSeq(res.imageHistory, 1, res.currentIndex + 1), newImageUrl)
    IN [res EXCEPT !.imageHistory = newHistory,
                   !.currentIndex = Len(newHistory) - 1,
                   !.refinementPrompt = ""]

\* prevResults.map((res, index) => index !== resultIndex ? res : refined)
refinedResults(prevResults, resultIndex, newImageUrl) ==
    [k \in 1..Len(prevResults) |->
        IF k - 1 # resultIndex THEN prevResults[k]
        ELSE refinedEntry(prevResults[k], newImageUrl)]

\* mutant: no lower clamp
undoIndex_Unclamped(res) == res.currentIndex - 1

\* Math.max(0, res.currentIndex - 1)
undoIndex(res) == Max(0, res.currentIndex - 1)

\* Math.min(res.imageHistory.length - 1, res.currentIndex + 1)
redoIndex(res) == Min(Len(res.imageHistory) - 1, res.currentIndex + 1)

\* prev.map(res => res.id === resultId ? { ...res, currentIndex: ... } : res)
undoResults(prev, resultId) ==
    [k \in 1..Len(prev) |->
        IF prev[k].id = resultId THEN [prev[k] EXCEPT !.currentIndex = undoIndex(prev[k])]
        ELSE prev[k]]

redoResults(prev, resultId) ==
    [k \in 1..Len(prev) |->
        IF prev[k].id = resultId THEN [prev[k] EXCEPT !.currentIndex = redoIndex(prev[k])]
        ELSE prev[k]]

\* mutant: the prompt is written to every entry
promptResults_EveryEntry(prev, resultId, prompt) ==
    [k \in 1..Len(prev) |-> [prev[k] EXCEPT !.refinementPrompt = prompt]]

\* prev.map(res => res.id === resultId ? { ...res, refinementPrompt: prompt } : res)
promptResults(prev, resultId, prompt) ==
    [k \in 1..Len(prev) |->
        IF prev[k].id = resultId THEN [prev[k] EXCEPT !.refinementPrompt = prompt]
        ELSE prev[k]]

\* ------------------------------------------------------------ App: handlers
\* mutant: the results are cleared before the product photo is validated
handleGenerateClick_ClearsFirst ==
    IF productPhoto = NULL
    THEN /\ error' = "Product photo is required."
         /\ results' = <<>>
         /\ last' = [op |-> "generateInvalid", arg |-> <<>>, pre |-> <<>>]
         /\ UNCHANGED <<isLoading, history, now, gpVars>>
    ELSE /\ generatePhotos([productPhoto |-> productPhoto,
                            modelPhoto |-> modelPhoto,
                            referencePhoto |-> referencePhoto,
                            theme |-> activeTheme,
                            customTheme |-> customTheme,
                            additionalCommands |-> additionalCommands])
         /\ results' = <<>>
         /\ now' = now + 1
         /\ IF apiKeySet
            THEN /\ isLoading' = TRUE
                 /\ error' = NULL
                 /\ last' = [op |-> "generateStart", arg |-> <<>>, pre |-> <<>>]
            ELSE /\ isLoading' = FALSE
                 /\ error' = GenerateErrorMessage(ApiKeyError)
                 /\ last' = [op |-> "generateFailed", arg |-> <<>>, pre |-> <<>>]
         /\ UNCHANGED history

\* handleGenerateClick up to its first suspension.  Without a product photo it
\* only sets the error.  Otherwise it sets the busy flag, clears error and
\* results and calls generatePhotos with the current inputs; when getAi()
\* throws, catch and finally run before any other event.
handleGenerateClick ==
    IF productPhoto = NULL
    THEN /\ error' = "Product photo is required."
         /\ last' = [op |-> "generateInvalid", arg |-> <<>>, pre |-> <<>>]
         /\ UNCHANGED <<isLoading, results, history, now, gpVars>>
    ELSE /\ generatePhotos([productPhoto |-> productPhoto,
                            modelPhoto |-> modelPhoto,
                            referencePhoto |-> referencePhoto,
                            theme |-> activeTheme,
                            customTheme |-> customTheme,
                            additionalCommands |-> additionalCommands])
         /\ results' = <<>>
         /\ now' = now + 1
         /\ IF apiKeySet
            THEN /\ isLoading' = TRUE
                 /\ error' = NULL
                 /\ last' = [op |-> "generateStart", arg |-> <<>>, pre |-> <<>>]
            ELSE /\ isLoading' = FALSE
                 /\ error' = GenerateErrorMessage(ApiKeyError)
                 /\ last' = [op |-> "generateFailed", arg |-> <<>>, pre |-> <<>>]
         /\ UNCHANGED history

\* the images of the responses received so far, in the order of the calls
RECURSIVE receivedUrls(_, _)
receivedUrls(resp, i) ==
    IF i > numberOfImages THEN <<>>
    ELSE (IF i \in DOMAIN resp /\ HasImage(resp[i]) THEN <<ImageUrlOf(resp[i])>> ELSE <<>>)
            \o receivedUrls(resp, i + 1)

\* mutant: a rejection keeps the images the other calls returned
GenerateResume_PartialBatch ==
    /\ GPStep
    /\ IF gpPc' = "fulfilled"
       THEN /\ results' = newResults(gpOut', now)
            /\ history' = recordBatch(history, newResults(gpOut', now), now)
            /\ isLoading' = FALSE
            /\ last' = [op |-> "generateDone", arg |-> <<>>, pre |-> <<>>]
            /\ UNCHANGED error
       ELSE IF gpPc' = "rejected"
       THEN /\ error' = GenerateErrorMessage(gpOut')
            /\ results' = newResults(receivedUrls(gpResp', 1), now)
            /\ history' = recordBatch(history, newResults(receivedUrls(gpResp', 1), now), now)
            /\ isLoading' = FALSE
            /\ last' = [op |-> "generateFailed", arg |-> <<>>, pre |-> <<>>]
       ELSE /\ last' = [op |-> "generateStep", arg |-> <<>>, pre |-> <<>>]
            /\ UNCHANGED <<isLoading, results, history, error>>
    /\ UNCHANGED <<apiKeySet, inputVars, now, rfVars, nEvents>>

\* The awaited generatePhotos resumes; once it settles, the rest of
\* handleGenerateClick runs: the new results and batch, or catch, then finally.
GenerateResume ==
    /\ GPStep
    /\ IF gpPc' = "fulfilled"
       THEN /\ results' = newResults(gpOut', now)
            /\ history' = recordBatch(history, newResults(gpOut', now), now)
            /\ isLoading' = FALSE
            /\ last' = [op |-> "generateDone", arg |-> <<>>, pre |-> <<>>]
            /\ UNCHANGED error
       ELSE IF gpPc' = "rejected"
       THEN /\ error' = GenerateErrorMessage(gpOut')
            /\ isLoading' = FALSE
            /\ last' = [op |-> "generateFailed", arg |-> <<>>, pre |-> <<>>]
            /\ UNCHANGED <<results, history>>
       ELSE /\ last' = [op |-> "generateStep", arg |-> <<>>, pre |-> <<>>]
            /\ UNCHANGED <<isLoading, results, history, error>>
    /\ UNCHANGED <<apiKeySet, inputVars, now, rfVars, nEvents>>

\* mutant: the command is tested without trim()
handleRefinement_NoTrim(resultId, command) ==
    LET resultIndex == findIndex(results, resultId)
    IN IF resultIndex = -1 \/ command = ""
       THEN /\ last' = [op |-> "refineIgnored",
                        arg |-> [id |-> resultId, command |-> command],
                        pre |-> <<>>]
            /\ UNCHANGED <<isLoading, error, rfVars>>
       ELSE LET currentResult == results[resultIndex + 1]
                currentImageUrl == currentResult.imageHistory[currentResult.currentIndex + 1]
            IN IF apiKeySet
               THEN /\ isLoading' = TRUE
                    /\ rfPc' = "await"
                    /\ rfId' = resultId
                    /\ rfIndex' = resultIndex
                    /\ rfCall' = RefineRequest(currentImageUrl, command)
                    /\ last' = [op |-> "refineStart", arg |-> resultId, pre |-> <<>>]
                    /\ UNCHANGED error
               ELSE /\ isLoading' = FALSE
                    /\ error' = "Failed to refine the image."
                    /\ last' = [op |-> "refineFailed",
                                arg |-> [id |-> resultId, index |-> resultIndex, cause |-> ApiKeyError],
                                pre |-> results]
                    /\ UNCHANGED rfVars

\* handleRefinement(resultId, command) up to its suspension on refineImage
handleRefinement(resultId, command) ==
    LET resultIndex == findIndex(results, resultId)
    IN IF resultIndex = -1 \/ Trim(command) = ""
       THEN /\ last' = [op |-> "refineIgnored",
                        arg |-> [id |-> resultId, command |-> command],
                        pre |-> <<>>]
            /\ UNCHANGED <<isLoading, error, rfVars>>
       ELSE LET currentResult == results[resultIndex + 1]
                currentImageUrl == currentResult.imageHistory[currentResult.currentIndex + 1]
            IN IF apiKeySet
               THEN /\ isLoading' = TRUE
                    /\ rfPc' = "await"
                    /\ rfId' = resultId
                    /\ rfIndex' = resultIndex
                    /\ rfCall' = RefineRequest(currentImageUrl, command)
                    /\ last' = [op |-> "refineStart", arg |-> resultId, pre |-> <<>>]
                    /\ UNCHANGED error
               ELSE /\ isLoading' = FALSE
                    /\ error' = "Failed to refine the image."
                    /\ last' = [op |-> "refineFailed",
                                arg |-> [id |-> resultId, index |-> resultIndex, cause |-> ApiKeyError],
                                pre |-> results]
                    /\ UNCHANGED rfVars

\* mutant: the refined entry is written in place, so the batch that holds
\* the same entry object sees the change
RefineSucceed_InPlace ==
    /\ rfPc = "await"
    /\ \E r \in ResponsesTo(RefinedName(rfCall.parts[1].inlineData.data, nEvents)) :
        /\ HasImage(r)
        /\ results' = refinedResults(results, rfIndex, ImageUrlOf(r))
        /\ history' = [b \in 1..Len(history) |->
                          [history[b] EXCEPT !.results =
                              [k \in 1..Len(history[b].results) |->
                                  IF k - 1 = rfIndex /\ rfIndex < Len(results)
                                       /\ history[b].results[k] = results[k]
                                  THEN refinedEntry(results[k], ImageUrlOf(r))
                                  ELSE history[b].results[k]]]]
        /\ last' = [op |-> "refineDone",
                    arg |-> [id |-> rfId, index |-> rfIndex, image |-> ImageUrlOf(r)],
                    pre |-> results]
    /\ isLoading' = FALSE
    /\ rfPc' = "idle" /\ rfId' = NULL /\ rfIndex' = -1 /\ rfCall' = <<>>
    /\ UNCHANGED <<apiKeySet, inputVars, error, now, gpVars, budgetVars>>

\* refineImage's call answers with an image: the functional update of results
RefineSucceed ==
    /\ rfPc = "await"
    /\ \E r \in ResponsesTo(RefinedName(rfCall.parts[1].inlineData.data, nEvents)) :
        /\ HasImage(r)
        /\ results' = refinedResults(results, rfIndex, ImageUrlOf(r))
        /\ last' = [op |-> "refineDone",
                    arg |-> [id |-> rfId, index |-> rfIndex, image |-> ImageUrlOf(r)],
                    pre |-> results]
    /\ isLoading' = FALSE
    /\ rfPc' = "idle" /\ rfId' = NULL /\ rfIndex' = -1 /\ rfCall' = <<>>
    /\ UNCHANGED <<apiKeySet, inputVars, history, error, now, gpVars, budgetVars>>

\* mutant: the failure path clears the entry's refinementPrompt
RefineFail_ClearsPrompt ==
    /\ rfPc = "await"
    /\ \E e \in Rejections \cup {RefineNoImageError} :
        /\ error' = "Failed to refine the image."
        /\ last' = [op |-> "refineFailed",
                    arg |-> [id |-> rfId, index |-> rfIndex, cause |-> e],
                    pre |-> results]
    /\ results' = promptResults(results, rfId, "")
    /\ isLoading' = FALSE
    /\ rfPc' = "idle" /\ rfId' = NULL /\ rfIndex' = -1 /\ rfCall' = <<>>
    /\ UNCHANGED <<apiKeySet, inputVars, history, now, gpVars, budgetVars>>

\* refineImage's call answers without an image (it throws), or rejects
RefineFail ==
    /\ rfPc = "await"
    /\ \E e \in Rejections \cup {RefineNoImageError} :
        /\ error' = "Failed to refine the image."
        /\ last' = [op |-> "refineFailed",
                    arg |-> [id |-> rfId, index |-> rfIndex, cause |-> e],
                    pre |-> results]
    /\ isLoading' = FALSE
    /\ rfPc' = "idle" /\ rfId' = NULL /\ rfIndex' = -1 /\ rfCall' = <<>>
    /\ UNCHANGED <<apiKeySet, inputVars, results, history, now, gpVars, budgetVars>>

handleUndo(resultId) ==
    /\ results' = undoResults(results, resultId)
    /\ last' = [op |-> "undo", arg |-> resultId, pre |-> results]

handleRedo(resultId) ==
    /\ results' = redoResults(results, resultId)
    /\ last' = [op |-> "redo", arg |-> resultId, pre |-> results]

handleRefinementPromptChange(resultId, prompt) ==
    /\ results' = promptResults(results, resultId, prompt)
    /\ last' = [op |-> "prompt", arg |-> [id |-> resultId, prompt |-> prompt], pre |-> results]

\* ------------------------------------------------------ App: the UI's events
\* mutant: the Generate button is not disabled while busy
GenerateButton_IgnoresBusy ==
    /\ ~(productPhoto = NULL)
    /\ nEvents < MaxUserEvents
    /\ handleGenerateClick
    /\ nEvents' = nEvents + 1
    /\ quota' = MaxTextOnly
    /\ UNCHANGED <<apiKeySet, inputVars, rfVars>>

\* Generate button: disabled={!productPhoto || isLoading}
GenerateButton ==
    /\ ~(productPhoto = NULL \/ isLoading)
    /\ nEvents < MaxUserEvents
    /\ handleGenerateClick
    /\ nEvents' = nEvents + 1
    /\ quota' = MaxTextOnly
    /\ UNCHANGED <<apiKeySet, inputVars, rfVars>>

\* Refine button of card k: disabled={!res.refinementPrompt.trim() || isLoading}
RefineButton ==
    /\ \E k \in 1..Len(results) :
        /\ ~(Trim(results[k].refinementPrompt) = "" \/ isLoading)
        /\ handleRefinement(results[k].id, results[k].refinementPrompt)
    /\ UNCHANGED <<apiKeySet, inputVars, results, history, now, gpVars, budgetVars>>

\* Undo button of card k: disabled={res.currentIndex === 0 || isLoading}
UndoButton ==
    /\ \E k \in 1..Len(results) :
        /\ ~(results[k].currentIndex = 0 \/ isLoading)
        /\ handleUndo(results[k].id)
    /\ UNCHANGED <<apiKeySet, inputVars, isLoading, history, error, now, gpVars, rfVars, budgetVars>>

\* Redo button of card k:
\* disabled={res.currentIndex === res.imageHistory.length - 1 || isLoading}
RedoButton ==
    /\ \E k \in 1..Len(results) :
        /\ ~(results[k].currentIndex = Len(results[k].imageHistory) - 1 \/ isLoading)
        /\ handleRedo(results[k].id)
    /\ UNCHANGED <<apiKeySet, inputVars, isLoading, history, error, now, gpVars, rfVars, budgetVars>>

\* typing in the Refine... input of card k (never disabled)
PromptInput ==
    /\ nEvents < MaxUserEvents
    /\ \E k \in 1..Len(results) : \E text \in RefinementTexts \ {results[k].refinementPrompt} :
        handleRefinementPromptChange(results[k].id, text)
    /\ nEvents' = nEvents + 1
    /\ UNCHANGED <<apiKeySet, inputVars, isLoading, history, error, now, gpVars, rfVars, quota>>

\* clicking a history item (never disabled): setResults(item.results)
HistoryClick ==
    /\ \E b \in 1..Len(history) : results' = history[b].results
    /\ last' = [op |-> "select", arg |-> <<>>, pre |-> <<>>]
    /\ UNCHANGED <<apiKeySet, inputVars, isLoading, history, error, now, gpVars, rfVars, budgetVars>>

\* the product uploader: a file chosen, or its remove button
ProductPhotoChange ==
    /\ nEvents < MaxUserEvents
    /\ nEvents' = nEvents + 1
    /\ \/ \E f \in ProductFiles : productPhoto' = f
       \/ productPhoto # NULL /\ productPhoto' = NULL
    /\ last' = [op |-> "input", arg |-> <<>>, pre |-> <<>>]
    /\ UNCHANGED <<apiKeySet, modelPhoto, referencePhoto, activeTheme, customTheme,
                   additionalCommands, appVars, gpVars, rfVars, quota>>

\* mutant: a model photo is set without clearing the reference photo
handleModelPhotoChange_KeepsReference(file) ==
    /\ modelPhoto' = file
    /\ UNCHANGED referencePhoto

\* setModelPhoto(file); if (file) setReferencePhoto(null);
handleModelPhotoChange(file) ==
    /\ modelPhoto' = file
    /\ IF file # NULL THEN referencePhoto' = NULL ELSE UNCHANGED referencePhoto

\* setReferencePhoto(file); if (file) setModelPhoto(null);
handleReferencePhotoChange(file) ==
    /\ referencePhoto' = file
    /\ IF file # NULL THEN modelPhoto' = NULL ELSE UNCHANGED modelPhoto

\* the model uploader (disabled={!!referencePhoto}) and its remove button
ModelUploader ==
    /\ nEvents < MaxUserEvents
    /\ nEvents' = nEvents + 1
    /\ \/ \E f \in ModelFiles : ~(referencePhoto # NULL) /\ handleModelPhotoChange(f)
       \/ modelPhoto # NULL /\ handleModelPhotoChange(NULL)
    /\ last' = [op |-> "input", arg |-> <<>>, pre |-> <<>>]
    /\ UNCHANGED <<apiKeySet, productPhoto, activeTheme, customTheme,
                   additionalCommands, appVars, gpVars, rfVars, quota>>

\* the reference uploader (disabled={!!modelPhoto}) and its remove button
ReferenceUploader ==
    /\ nEvents < MaxUserEvents
    /\ nEvents' = nEvents + 1
    /\ \/ \E f \in ReferenceFiles : ~(modelPhoto # NULL) /\ handleReferencePhotoChange(f)
       \/ referencePhoto # NULL /\ handleReferencePhotoChange(NULL)
    /\ last' = [op |-> "input", arg |-> <<>>, pre |-> <<>>]
    /\ UNCHANGED <<apiKeySet, productPhoto, activeTheme, customTheme,
                   additionalCommands, appVars, gpVars, rfVars, quota>>

\* a theme button: disabled={customTheme.length > 0}
handleThemeClick ==
    /\ nEvents < MaxUserEvents
    /\ nEvents' = nEvents + 1
    /\ ~(customTheme # "")
    /\ \E theme \in THEMES : activeTheme' = theme
    /\ customTheme' = ""
    /\ last' = [op |-> "input", arg |-> <<>>, pre |-> <<>>]
    /\ UNCHANGED <<apiKeySet, productPhoto, modelPhoto, referencePhoto,
                   additionalCommands, appVars, gpVars, rfVars, quota>>

\* the custom theme input: setCustomTheme(value); setActiveTheme('None')
CustomThemeInput ==
    /\ nEvents < MaxUserEvents
    /\ nEvents' = nEvents + 1
    /\ \E text \in CustomThemeTexts \ {customTheme} : customTheme' = text
    /\ activeTheme' = "None"
    /\ last' = [op |-> "input", arg |-> <<>>, pre |-> <<>>]
    /\ UNCHANGED <<apiKeySet, productPhoto, modelPhoto, referencePhoto,
                   additionalCommands, appVars, gpVars, rfVars, quota>>

\* the additional commands textarea
CommandsInput ==
    /\ nEvents < MaxUserEvents
    /\ nEvents' = nEvents + 1
    /\ \E text \in CommandTexts \ {additionalCommands} : additionalCommands' = text
    /\ last' = [op |-> "input", arg |-> <<>>, pre |-> <<>>]
    /\ UNCHANGED <<apiKeySet, productPhoto, modelPhoto, referencePhoto,
                   activeTheme, customTheme, appVars, gpVars, rfVars, quota>>

Next ==
    \/ GenerateButton
    \/ GenerateResume
    \/ RefineButton
    \/ RefineSucceed
    \/ RefineFail
    \/ UndoButton
    \/ RedoButton
    \/ PromptInput
    \/ HistoryClick
    \/ ProductPhotoChange
    \/ ModelUploader
    \/ ReferenceUploader
    \/ handleThemeClick
    \/ CustomThemeInput
    \/ CommandsInput

Spec == Init /\ [][Next]_vars


\* ------------------------------------------- the handlers called directly
\* handleUndo and handleRedo called with any result id, whether or not the
\* card's button is enabled (the handlers keep their own bounds)
AbsentId == <<"result", 0, 0>>

CallableIds == {results[k].id : k \in 1..Len(results)} \cup {AbsentId}

DirectUndo ==
    /\ \E resultId \in CallableIds : handleUndo(resultId)
    /\ UNCHANGED <<apiKeySet, inputVars, isLoading, history, error, now, gpVars, rfVars, budgetVars>>

DirectRedo ==
    /\ \E resultId \in CallableIds : handleRedo(resultId)
    /\ UNCHANGED <<apiKeySet, inputVars, isLoading, history, error, now, gpVars, rfVars, budgetVars>>

NextHandlers ==
    \/ Next
    \/ DirectUndo
    \/ DirectRedo

SpecHandlers == Init /\ [][NextHandlers]_vars

\* handleGenerateClick and handleRefinement called between operations with
\* any arguments, whether or not their button is enabled (the handlers keep
\* their own guards)
DirectGenerate ==
    /\ ~(gpPc \in {"readProduct", "readReference", "readModel", "awaitOne", "awaitAll", "hung"})
    /\ rfPc = "idle"
    /\ nEvents < MaxUserEvents
    /\ handleGenerateClick
    /\ nEvents' = nEvents + 1
    /\ quota' = MaxTextOnly
    /\ UNCHANGED <<apiKeySet, inputVars, rfVars>>

DirectRefine ==
    /\ ~(gpPc \in {"readProduct", "readReference", "readModel", "awaitOne", "awaitAll", "hung"})
    /\ rfPc = "idle"
    /\ nEvents < MaxUserEvents
    /\ \E resultId \in CallableIds : \E command \in RefinementTexts :
            handleRefinement(resultId, command)
    /\ nEvents' = nEvents + 1
    /\ UNCHANGED <<apiKeySet, inputVars, results, history, now, gpVars, quota>>

\* handleModelPhotoChange and handleReferencePhotoChange called with a file
\* whether or not their uploader is enabled
DirectModelPhoto ==
    /\ nEvents < MaxUserEvents
    /\ nEvents' = nEvents + 1
    /\ \E f \in ModelFiles : handleModelPhotoChange(f)
    /\ last' = [op |-> "setModel", arg |-> <<>>, pre |-> <<modelPhoto, referencePhoto>>]
    /\ UNCHANGED <<apiKeySet, productPhoto, activeTheme, customTheme,
                   additionalCommands, appVars, gpVars, rfVars, quota>>

DirectReferencePhoto ==
    /\ nEvents < MaxUserEvents
    /\ nEvents' = nEvents + 1
    /\ \E f \in ReferenceFiles : handleReferencePhotoChange(f)
    /\ last' = [op |-> "setReference", arg |-> <<>>, pre |-> <<modelPhoto, referencePhoto>>]
    /\ UNCHANGED <<apiKeySet, productPhoto, activeTheme, customTheme,
                   additionalCommands, appVars, gpVars, rfVars, quota>>

NextDirect ==
    \/ Next
    \/ DirectGenerate
    \/ DirectRefine
    \/ DirectModelPhoto
    \/ DirectReferencePhoto

SpecDirect == Init /\ [][NextDirect]_vars

\* ------------------------------------------------------------------ claims
AllEntries ==
    {results[k] : k \in 1..Len(results)}
        \cup UNION {{history[b].results[k] : k \in 1..Len(history[b].results)} : b \in 1..Len(history)}

gpInFlight == gpPc \in {"readProduct", "readReference", "readModel", "awaitOne", "awaitAll", "hung"}
rfInFlight == rfPc = "await"

\* C1: every entry of the displayed results and of every recorded batch has
\* at least one version and 0 <= currentIndex <= imageHistory.length - 1.
C1_ActiveIndexValid ==
    \A e \in AllEntries :
        /\ Len(e.imageHistory) >= 1
        /\ 0 <= e.currentIndex
        /\ e.currentIndex <= Len(e.imageHistory) - 1

\* C1 witness: a displayed entry that was refined and then undone, next to
\* a recorded batch.
C1_Witness ==
    /\ Len(history) >= 1
    /\ \E k \in 1..Len(results) :
        /\ Len(results[k].imageHistory) = 2
        /\ results[k].currentIndex = 0
        /\ last.op = "undo"

\* C2: a successful refinement turns the entry it is applied to (versions V,
\* currentIndex i) into versions V[0..i] followed by the new image, with
\* currentIndex at the last version and an empty refinementPrompt.
C2_RefineTruncatesAndAppends ==
    (last.op = "refineDone" /\ last.arg.index < Len(last.pre)) =>
        LET before == last.pre[last.arg.index + 1]
            after == results[last.arg.index + 1]
        IN /\ Len(after.imageHistory) = before.currentIndex + 2
           /\ \A v \in 1..(before.currentIndex + 1) : after.imageHistory[v] = before.imageHistory[v]
           /\ after.imageHistory[before.currentIndex + 2] = last.arg.image
           /\ after.currentIndex = Len(after.imageHistory) - 1
           /\ after.refinementPrompt = ""
           /\ after.id = before.id

\* C2 witness: versions [A, B] at currentIndex 0 were refined into [A, D],
\* currentIndex 1: B is discarded.
C2_Witness ==
    /\ last.op = "refineDone"
    /\ last.arg.index < Len(last.pre)
    /\ LET before == last.pre[last.arg.index + 1]
           after == results[last.arg.index + 1]
       IN /\ Len(before.imageHistory) = 2
          /\ before.currentIndex = 0
          /\ after.imageHistory = <<before.imageHistory[1], last.arg.image>>
          /\ last.arg.image # before.imageHistory[2]
          /\ after.currentIndex = 1

\* C3: handleUndo sets currentIndex to max(0, currentIndex - 1) and handleRedo
\* to min(imageHistory.length - 1, currentIndex + 1) on the entry with the
\* given id: at the bounds the entry is unchanged and the index never leaves
\* 0..imageHistory.length - 1.
C3_UndoRedoClamped ==
    (last.op \in {"undo", "redo"}) =>
        /\ Len(results) = Len(last.pre)
        /\ \A k \in 1..Len(results) :
            LET before == last.pre[k]
                after == results[k]
                top == Len(before.imageHistory) - 1
            IN IF before.id # last.arg THEN after = before
               ELSE /\ after.imageHistory = before.imageHistory
                    /\ after.refinementPrompt = before.refinementPrompt
                    /\ after.id = before.id
                    /\ last.op = "undo" =>
                        /\ before.currentIndex = 0 => after.currentIndex = 0
                        /\ before.currentIndex > 0 => after.currentIndex = before.currentIndex - 1
                    /\ last.op = "redo" =>
                        /\ before.currentIndex = top => after.currentIndex = top
                        /\ before.currentIndex < top => after.currentIndex = before.currentIndex + 1
                    /\ 0 <= after.currentIndex /\ after.currentIndex <= top

\* C3 witness: handleUndo ran on an entry with two versions that was already
\* at currentIndex 0, and left the results as they were.
C3_Witness ==
    /\ last.op = "undo"
    /\ results = last.pre
    /\ \E k \in 1..Len(last.pre) :
        /\ last.pre[k].id = last.arg
        /\ last.pre[k].currentIndex = 0
        /\ Len(last.pre[k].imageHistory) = 2

\* C4: a failed refinement (the call rejects, or answers without an image)
\* leaves the displayed results, refinementPrompt included, and the history
\* unchanged, and sets the error.
C4_RefineFailureChangesNothing ==
    [][(last'.op = "refineFailed") =>
            /\ results' = results
            /\ history' = history
            /\ error' = "Failed to refine the image."
            /\ isLoading' = FALSE]_vars

\* C4 witness: the API answered a refinement request with a failure; the
\* entry's refinementPrompt is still the text that was submitted.
C4_Witness ==
    /\ last.op = "refineFailed"
    /\ apiKeySet
    /\ error = "Failed to refine the image."
    /\ last.arg.index < Len(results)
    /\ results[last.arg.index + 1].id = last.arg.id
    /\ results[last.arg.index + 1].refinementPrompt = "warmer"

\* C5 (as claimed): a successful refinement appends the new image to the
\* entry whose id was given, and changes no entry with another id.
C5_RefineTargetsById ==
    (last.op = "refineDone") =>
        \A k \in 1..Len(last.pre) :
            IF last.pre[k].id = last.arg.id
            THEN results[k].imageHistory[Len(results[k].imageHistory)] = last.arg.image
            ELSE /\ results[k].imageHistory = last.pre[k].imageHistory
                 /\ results[k].currentIndex = last.pre[k].currentIndex

C10_GenerateCreatesEntries ==
    (last.op = "generateDone") =>
        /\ Len(results) = Len(gpOut)
        /\ \A k \in 1..Len(gpOut) :
            /\ results[k].imageHistory = <<gpOut[k]>>
            /\ results[k].currentIndex = 0
            /\ results[k].refinementPrompt = ""

\* C10 witness: a generation returned 3 images (one call answered without an
\* image) and 3 entries are displayed.
C10_Witness ==
    /\ last.op = "generateDone"
    /\ Len(gpOut) = 3
    /\ Len(results) = 3


\* the parts generatePhotos is to send: the product image, then the
\* reference or model image when there is one, then the instruction
PartsSent(args, instruction) ==
    <<fileToGenerativePart(args.productPhoto)>>
        \o (IF args.referencePhoto # NULL THEN <<fileToGenerativePart(args.referencePhoto)>>
            ELSE IF args.modelPhoto # NULL THEN <<fileToGenerativePart(args.modelPhoto)>>
            ELSE <<>>)
        \o <<[text |-> instruction]>>

\* C7: with a reference photo (a model photo or not) and an API key,
\* generatePhotos issues one call, with parts [product, reference,
\* instruction]; it returns [image] when the response carries one and []
\* when it carries none, and only a rejected call makes it fail.
C7_ReferenceModeOneCall ==
    (gpPc # "idle" /\ apiKeySet /\ gpArgs.referencePhoto # NULL) =>
        /\ Len(gpCalls) <= 1
        /\ gpPc \in {"awaitOne", "fulfilled", "rejected"} =>
            /\ Len(gpCalls) = 1
            /\ gpCalls[1].parts = PartsSent(gpArgs, ReferencePrompt(gpArgs))
        /\ gpPc = "rejected" => DOMAIN gpResp = {}
        /\ gpPc = "fulfilled" =>
            /\ DOMAIN gpResp = {1}
            /\ Len(gpOut) <= 1
            /\ HasImage(gpResp[1]) => gpOut = <<ImageUrlOf(gpResp[1])>>
            /\ ~HasImage(gpResp[1]) => gpOut = <<>>

\* C7 witness: reference and model photo both given, the one call answered
\* without an image, generatePhotos returned [].
C7_Witness ==
    /\ gpPc = "fulfilled"
    /\ gpArgs.referencePhoto # NULL
    /\ gpArgs.modelPhoto # NULL
    /\ Len(gpCalls) = 1
    /\ ~HasImage(gpResp[1])
    /\ gpOut = <<>>

\* C8: without a reference photo (and with an API key) generatePhotos issues
\* 4 calls in one run, before any response is taken: all 4 with the same
\* parts, [product, model, instruction] with a model photo and [product,
\* instruction] without.
C8_FourIdenticalCalls ==
    (gpPc # "idle" /\ apiKeySet /\ gpArgs.referencePhoto = NULL) =>
        /\ Len(gpCalls) \in {0, 4}
        /\ gpPc \in {"readProduct", "readModel"} => Len(gpCalls) = 0
        /\ gpPc \in {"awaitAll", "fulfilled", "rejected"} => Len(gpCalls) = 4
        /\ DOMAIN gpResp # {} => Len(gpCalls) = 4
        /\ \A i \in 1..Len(gpCalls) :
            /\ gpCalls[i].parts = PartsSent(gpArgs, fullPrompt(gpArgs))
            /\ gpCalls[i] = gpCalls[1]

\* C8 witness: model mode, the 4 calls are issued and none has answered.
C8_Witness ==
    /\ gpPc = "awaitAll"
    /\ gpArgs.modelPhoto # NULL
    /\ gpArgs.referencePhoto = NULL
    /\ Len(gpCalls) = 4
    /\ DOMAIN gpResp = {}

\* the calls of the running generation that answered with an image
ImageBearingCalls == {i \in DOMAIN gpResp : HasImage(gpResp[i])}

\* the j-th of them in the order the calls were issued
NthImageBearingCall(j) ==
    CHOOSE i \in ImageBearingCalls : Cardinality({x \in ImageBearingCalls : x < i}) = j - 1

\* C9: when all 4 calls have answered, generatePhotos returns the images of
\* the image-bearing responses in the order the calls were issued, whatever
\* the order the answers arrived in.
C9_ResultsInCallOrder ==
    (gpPc = "fulfilled" /\ Len(gpCalls) = numberOfImages) =>
        /\ Len(gpOut) = Cardinality(ImageBearingCalls)
        /\ \A j \in 1..Len(gpOut) :
            /\ gpOut[j] = ImageUrlOf(gpResp[NthImageBearingCall(j)])
            /\ gpOut[j] = DataUrl("image/png", <<"generated", now, NthImageBearingCall(j)>>)

\* C9 witness: calls 1, 2 and 4 answered with images and call 3 without, call
\* 1 answered last, and the result is [image 1, image 2, image 4].
C9_Witness ==
    /\ gpPc = "fulfilled"
    /\ last.op = "service"
    /\ last.arg = {1}
    /\ ImageBearingCalls = {1, 2, 4}
    /\ gpOut = <<ImageUrlOf(gpResp[1]), ImageUrlOf(gpResp[2]), ImageUrlOf(gpResp[4])>>

\* the instruction text of an issued request: the text of its last part
InstructionOf(call) == call.parts[Len(call.parts)].text

\* the pieces of clause appear, consecutively, in the instruction
ContainsClause(instruction, clause) ==
    \E k \in 1..(Len(instruction) - Len(clause) + 1) :
        SubSeq(instruction, k, k + Len(clause) - 1) = clause

\* C11: in every request generatePhotos issues (reference, model or product
\* mode) the instruction contains " The theme should be: <theme>." exactly
\* when the effective theme (customTheme under theme 'None', the theme
\* otherwise) is non-empty, and " Additional instructions: <text>." exactly
\* when additionalCommands is non-empty.
C11_ClausesIffNonEmpty ==
    (gpPc # "idle" /\ apiKeySet) =>
        LET effectiveTheme == IF gpArgs.theme = "None" THEN gpArgs.customTheme ELSE gpArgs.theme
        IN \A i \in 1..Len(gpCalls) :
            /\ ContainsClause(InstructionOf(gpCalls[i]), <<" The theme should be: ", effectiveTheme, ".">>)
                    <=> effectiveTheme # ""
            /\ \A t \in THEMES \cup CustomThemeTexts :
                    t # effectiveTheme =>
                        ~ContainsClause(InstructionOf(gpCalls[i]), <<" The theme should be: ", t, ".">>)
            /\ ContainsClause(InstructionOf(gpCalls[i]),
                              <<" Additional instructions: ", gpArgs.additionalCommands, ".">>)
                    <=> gpArgs.additionalCommands # ""
            /\ (gpArgs.additionalCommands = "") =>
                    \A k \in 1..Len(InstructionOf(gpCalls[i])) :
                        InstructionOf(gpCalls[i])[k] # " Additional instructions: "

\* C11 witness: reference mode under theme 'None' with a custom theme and no
\* additional commands: the one request carries the theme clause only.
C11_Witness ==
    /\ gpPc = "awaitOne"
    /\ gpArgs.referencePhoto # NULL
    /\ gpArgs.theme = "None"
    /\ gpArgs.customTheme = "neon"
    /\ gpArgs.additionalCommands = ""
    /\ InstructionOf(gpCalls[1]) = <<ReferenceBasePrompt, " The theme should be: ", "neon", ".">>

\* C12: handleGenerateClick without a product photo sets the error
\* 'Product photo is required.' and returns: generatePhotos is not called (no
\* request is issued), and isLoading, results and history are unchanged.
C12_NoProductNoCall ==
    [][(productPhoto = NULL /\ (last'.op \in {"generateInvalid", "generateStart"} \/ now' # now)) =>
            /\ last'.op = "generateInvalid"
            /\ error' = "Product photo is required."
            /\ gpPc' = gpPc /\ gpCalls' = gpCalls /\ gpArgs' = gpArgs
            /\ isLoading' = isLoading
            /\ results' = results
            /\ history' = history]_vars

\* C12 witness: handleGenerateClick ran after the product photo was removed,
\* with a batch recorded and displayed.
C12_Witness ==
    /\ last.op = "generateInvalid"
    /\ productPhoto = NULL
    /\ error = "Product photo is required."
    /\ Len(history) = 1
    /\ Len(results) >= 1
    /\ ~isLoading

\* C13: a generation that returned at least one image puts exactly one new
\* batch, holding the entries it created, in front of the history and leaves
\* the batches already there as they were and in their order; no other step
\* changes the history; so the batches are ordered most recent first.
C13_BatchPrepended ==
    [][/\ IF last'.op = "generateDone" /\ Len(gpOut') > 0
          THEN /\ Len(history') = Len(history) + 1
               /\ history'[1].results = results'
               /\ Len(history'[1].results) = Len(gpOut')
               /\ \A k \in 1..Len(gpOut') : history'[1].results[k].imageHistory = <<gpOut'[k]>>
               /\ \A b \in 1..Len(history) : history'[b + 1] = history[b]
          ELSE history' = history
       /\ \A b \in 1..(Len(history') - 1) : history'[b].id[2] > history'[b + 1].id[2]]_vars

\* C13 witness: a second generation returned images; its batch is first in
\* the history and the earlier batch second.
C13_Witness ==
    /\ last.op = "generateDone"
    /\ Len(history) = 2
    /\ Len(results) >= 1
    /\ history[1].results = results
    /\ history[1].id = <<"history", 2>>
    /\ history[2].id = <<"history", 1>>

\* C14: every batch of the history holds its entries as they were when the
\* batch was recorded (ids of the batch's Date.now(), one version each, the
\* generated image, currentIndex 0, empty refinementPrompt), whatever was
\* refined, undone, redone or typed on the displayed entries since.
C14_BatchesAsRecorded ==
    \A b \in 1..Len(history) :
        LET time == history[b].id[2]
            stored == history[b].results
            images == [k \in 1..Len(stored) |-> stored[k].imageHistory[1]]
        IN /\ stored = newResults(images, time)
           /\ \A k \in 1..Len(stored) :
                /\ AfterComma(images[k])[1] = "generated"
                /\ AfterComma(images[k])[2] = time

\* C14 witness: a displayed entry of the recorded batch was refined, undone
\* and given a new refinementPrompt; it differs from the entry the batch holds.
C14_Witness ==
    /\ last.op = "prompt"
    /\ Len(history) = 1
    /\ \E k \in 1..Len(results) :
        /\ results[k].id = history[1].results[k].id
        /\ Len(results[k].imageHistory) = 2
        /\ results[k].currentIndex = 0
        /\ results[k].refinementPrompt = "warmer"
        /\ Len(history[1].results[k].imageHistory) = 1
        /\ history[1].results[k].refinementPrompt = ""

\* the image versions held by a list of entries
VersionsOf(entries) ==
    UNION {{entries[k].imageHistory[v] : v \in 1..Len(entries[k].imageHistory)} : k \in 1..Len(entries)}

\* the image versions reachable from the displayed results or from a batch
ReachableVersions(displayed, batches) ==
    VersionsOf(displayed) \cup UNION {VersionsOf(batches[b].results) : b \in 1..Len(batches)}

\* C15 (as claimed): no step makes a reachable image version unreachable,
\* except that a successful refinement may discard the versions after
\* currentIndex of the entry it is applied to.
C15_NothingDeleted ==
    [][\A image \in ReachableVersions(results, history) :
            \/ image \in ReachableVersions(results', history')
            \/ /\ last'.op = "refineDone"
               /\ last'.arg.index < Len(results)
               /\ \E v \in (results[last'.arg.index + 1].currentIndex + 2)
                               ..Len(results[last'.arg.index + 1].imageHistory) :
                        results[last'.arg.index + 1].imageHistory[v] = image]_vars

\* the image versions that carry the name of the generation started at time
GeneratedAt(versions, time) ==
    {image \in versions : AfterComma(image)[1] = "generated" /\ AfterComma(image)[2] = time}

\* C16 (as claimed): when one of the 4 calls rejects, generatePhotos yields no
\* images, the displayed results are empty, the history is unchanged and the
\* error is set.
C16_RejectionLeavesResultsEmpty ==
    [][(gpPc = "awaitAll" /\ gpPc' = "rejected") =>
            /\ gpOut' \in Rejections
            /\ results' = <<>>
            /\ history' = history
            /\ error' = GenerateErrorMessage(gpOut')
            /\ error' # NULL]_vars

\* C16 (amended): when one of the 4 calls rejects, generatePhotos yields no
\* images; the step leaves the displayed results (emptied by the click, or
\* the batch selected from the history since) and the history unchanged, no
\* image of this generation is displayed or recorded, the error is set and
\* the busy flag cleared.
C16_RejectionLosesBatch ==
    [][(gpPc = "awaitAll" /\ gpPc' = "rejected") =>
            /\ gpOut' \in Rejections
            /\ results' = results
            /\ history' = history
            /\ GeneratedAt(ReachableVersions(results', history'), now) = {}
            /\ error' = GenerateErrorMessage(gpOut')
            /\ error' # NULL
            /\ isLoading' = FALSE]_vars

\* C16 witness: 3 of the 4 calls answered with an image, the fourth rejected:
\* nothing is displayed, nothing is recorded, the error is shown.
C16_Witness ==
    /\ last.op = "generateFailed"
    /\ gpPc = "rejected"
    /\ Len(gpCalls) = numberOfImages
    /\ Cardinality({i \in DOMAIN gpResp : HasImage(gpResp[i])}) = 3
    /\ results = <<>>
    /\ history = <<>>
    /\ error = "Network error"
    /\ ~isLoading

\* C17 (as claimed): after a failed generation or a failed refinement the
\* displayed error is the message of the failure that occurred (the Error the
\* call rejected with, or the one the service threw).
C17_FailureSurfacedVerbatim ==
    /\ (last.op = "generateFailed" /\ gpOut.isError) => error = gpOut.message
    /\ (last.op = "refineFailed" /\ last.arg.cause.isError) => error = last.arg.cause.message

\* C18: modelPhoto and referencePhoto are never both set, also when the
\* handlers are called while their uploader is disabled: setting one clears
\* the other; so the arguments of every generatePhotos call made by
\* handleGenerateClick carry at most one of the two.
C18_ModelReferenceExclusive ==
    /\ ~(modelPhoto # NULL /\ referencePhoto # NULL)
    /\ gpPc # "idle" => ~(gpArgs.modelPhoto # NULL /\ gpArgs.referencePhoto # NULL)
    /\ last.op = "setModel" => (modelPhoto # NULL /\ referencePhoto = NULL)
    /\ last.op = "setReference" => (referencePhoto # NULL /\ modelPhoto = NULL)

\* C18 witness: a model photo was set while a reference photo was present;
\* the reference photo is cleared.
C18_Witness ==
    /\ last.op = "setModel"
    /\ last.pre = <<NULL, "style.webp">>
    /\ modelPhoto = "model.jpg"
    /\ referencePhoto = NULL

\* C19: handleRefinement called with an id that is not in the displayed
\* results, or with an empty or whitespace-only command, returns at once: no
\* request is issued, isLoading is not set, and results, history and error
\* are unchanged; a request is issued only for an id that is displayed and a
\* command with text.
C19_RefineGuardNoOp ==
    [][/\ (last'.op = "refineIgnored") =>
            /\ findIndex(results, last'.arg.id) = -1 \/ last'.arg.command \in {""} \cup Whitespace
            /\ rfPc' = rfPc /\ rfCall' = rfCall
            /\ isLoading' = isLoading
            /\ results' = results
            /\ history' = history
            /\ error' = error
       /\ (last'.op = "refineStart") =>
            /\ findIndex(results, last'.arg) # -1
            /\ rfCall'.parts[2].text \notin {""} \cup Whitespace]_vars

\* C19 witness: handleRefinement was called with a whitespace-only command on
\* a displayed entry while an error was shown; nothing changed.
C19_Witness ==
    /\ last.op = "refineIgnored"
    /\ last.arg.command = " "
    /\ findIndex(results, last.arg.id) # -1
    /\ rfPc = "idle"
    /\ ~isLoading
    /\ Len(history) = 1

\* the positions of the displayed entries with the given id
PositionsOf(resultId) == {k \in 1..Len(results) : results[k].id = resultId}

\* C20: an undo, a redo or a refinementPrompt change on a result id changes
\* one field of the one displayed entry with that id: currentIndex goes down
\* by one (undo) or up by one (redo), or refinementPrompt becomes the text
\* given; the entry's id, versions and other field, every other displayed
\* entry, the history, the busy flag and the error are unchanged.
C20_OneFieldOfOneEntry ==
    [][(last'.op \in {"undo", "redo", "prompt"}) =>
            LET resultId == IF last'.op = "prompt" THEN last'.arg.id ELSE last'.arg
            IN /\ Cardinality(PositionsOf(resultId)) = 1
               /\ Len(results') = Len(results)
               /\ \A k \in 1..Len(results) :
                    IF results[k].id # resultId THEN results'[k] = results[k]
                    ELSE /\ results'[k] # results[k]
                         /\ last'.op = "undo" =>
                                results'[k] = [results[k] EXCEPT !.currentIndex = results[k].currentIndex - 1]
                         /\ last'.op = "redo" =>
                                results'[k] = [results[k] EXCEPT !.currentIndex = results[k].currentIndex + 1]
                         /\ last'.op = "prompt" =>
                                results'[k] = [results[k] EXCEPT !.refinementPrompt = last'.arg.prompt]
               /\ history' = history
               /\ isLoading' = isLoading
               /\ error' = error]_vars

\* C20 witness: 'warmer' was typed on the second of 4 displayed entries, one
\* of which has two versions; only that entry's refinementPrompt is set.
C20_Witness ==
    /\ last.op = "prompt"
    /\ last.arg.prompt = "warmer"
    /\ Len(results) = 4
    /\ last.arg.id = results[2].id
    /\ results[2].refinementPrompt = "warmer"
    /\ \A k \in {1, 3, 4} : results[k].refinementPrompt = ""
    /\ \E k \in 1..4 : Len(results[k].imageHistory) = 2

\* ------------------------------------------------------------- progress
\* Every awaited file read and API call eventually completes: the load-end
\* event of a FileReader always fires, and a generateContent promise is
\* assumed to settle; so the suspended generatePhotos and the suspended
\* handleRefinement are eventually resumed while there is something to resume.
SpecLive ==
    /\ Init
    /\ [][Next]_vars
    /\ WF_vars(GenerateResume)
    /\ WF_vars(RefineSucceed \/ RefineFail)

\* C21 (as claimed): isLoading is set exactly while a generation or a
\* refinement is outstanding, and whenever it is set it is eventually
\* cleared.
C21_BusyEventuallyCleared ==
    /\ [](isLoading <=> (gpInFlight \/ rfInFlight))
    /\ isLoading ~> ~isLoading

\* C22: every batch of the history holds between 1 and 4 entries; a
\* generation that completes without any image displays no entry, records no
\* batch (the history is unchanged) and leaves the error cleared.
C22_BatchesHoldOneToFour ==
    [][/\ \A b \in 1..Len(history') :
            /\ Len(history'[b].results) >= 1
            /\ Len(history'[b].results) <= numberOfImages
       /\ (last'.op = "generateDone" /\ gpPc # "fulfilled" /\ Len(gpOut') = 0) =>
            /\ history' = history
            /\ results' = <<>>
            /\ error' = NULL
            /\ isLoading' = FALSE]_vars

\* C22 witness: after a batch was recorded, a generation completed with its
\* one response carrying no image: nothing is displayed, the history still
\* holds the one batch, and no error is shown.
C22_Witness ==
    /\ last.op = "generateDone"
    /\ gpPc = "fulfilled"
    /\ gpOut = <<>>
    /\ ~HasImage(gpResp[1])
    /\ results = <<>>
    /\ Len(history) = 1
    /\ error = NULL
    /\ ~isLoading

====
